---- MODULE Spec2Model ----
(***************************************************************************)
(* Model of scripts/enrich_sample.py: the fraud-ring synthesis run.        *)
(*                                                                         *)
(* The script is one batch run; each action below is one block of the      *)
(* script, in source order.  Strings are sequences of one-character        *)
(* strings, so formatting, slicing and joining are computed, not assumed.  *)
(* numpy's generator is a deterministic function of its seed; it is        *)
(* modelled by a small linear congruential generator and Init ranges over  *)
(* its seeds.  The iteration order of a set of strings depends on the      *)
(* interpreter's per-process string-hash seed, which is the variable       *)
(* hashseed.                                                               *)
(*                                                                         *)
(* scripts/run_all.py, the pipeline runner, is modelled at the end of the  *)
(* module as a second process with its own variables (SpecRunAll).         *)
(***************************************************************************)
EXTENDS Integers, Sequences, FiniteSets, TLC

\* ------------------------------------------------------------------ bounds
MaxRows == 4          \* rows of the input table
MaxIp == 4            \* distinct source IPs an input table may hold
MaxSeed == 1          \* generator seeds 0..MaxSeed
MaxHashSeed == 1      \* string-hash seeds 0..MaxHashSeed
MaxHubs == 6          \* hub IPs of the cluster builder taken alone
MaxPoolSize == 3      \* pool sizes of build_email_pool taken alone
\* pool size of email handles per cluster (30 in the script; bounded here)
EMAIL_VARIANTS_PER_CLUSTER == 1

\* --------------------------------------------------------------- constants
CLUSTER_MIN_SIZE == 2
CLUSTER_MAX_SIZE == 5
\* FRACTION_FRAUD_IPS in percent: the script's 0.05, and 0.75 so that a
\* table of at most MaxIp distinct IPs can hold several hubs.
HubFractions == {5, 75}

VARIABLES
    file,                 \* the input file: [present, rows]
    hub_fraction,         \* FRACTION_FRAUD_IPS, in percent
    seed,                 \* generator state that np.random.seed(SEED) sets
    hashseed,             \* the process's string-hash seed
    rng,                  \* state of the global numpy generator
    pc,                   \* position of the script
    df,                   \* the table: a sequence of rows (column -> value)
    columns,              \* df.columns, in order
    baseline,             \* df as the base enrichment left it
    unique_ips,
    hub_ips,
    hub_ips_list,
    clusters,
    cluster_email_pools,
    cluster_target_ads,
    cluster_fingerprints,
    loop_i,               \* index of the next cluster of "for c in clusters"
    output,               \* the output file: [written, columns, rows]
    run,                  \* 1, or 2 for a second run on the same input
    first_output,         \* the output file of run 1, kept for comparison
    sub_idx,              \* index labels the last noise step sampled
    base_users,           \* synthetic identities of the last override
    perm,                 \* an order in which to walk the cluster list
    df_perm,              \* the table overridden in the order perm
    draws,                \* per cluster, the generator state its draws start in
    arg_root,             \* build_email_pool's argument base_root
    arg_size,             \* build_email_pool's argument pool_size
    exists,               \* run_all.py: the files and programs that exist
    step,                 \* run_all.py: position of the runner
    finished,             \* run_all.py: the commands that returned code 0
    success_printed       \* run_all.py: "All steps completed successfully."

\* The arguments of build_email_pool, and the state of scripts/run_all.py.
pool_args == <<arg_root, arg_size>>
runner_vars == <<exists, step, finished, success_printed>>

vars == <<file, hub_fraction, seed, hashseed, rng, pc, df, columns, baseline,
          unique_ips, hub_ips, hub_ips_list, clusters, cluster_email_pools,
          cluster_target_ads, cluster_fingerprints, loop_i, output, run,
          first_output, sub_idx, base_users, perm, df_perm, draws,
          arg_root, arg_size, exists, step, finished, success_printed>>

\* ----------------------------------------------------------------- strings
Digit(d) == <<"0", "1", "2", "3", "4", "5", "6", "7", "8", "9">>[d + 1]

RECURSIVE Decimal(_)
\* str(n) for n >= 0
Decimal(n) == IF n < 10 THEN <<Digit(n)>>
              ELSE Decimal(n \div 10) \o <<Digit(n % 10)>>

\* f"{n:0{w}d}"
ZeroPad(n, w) ==
    LET d == Decimal(n)
    IN IF Len(d) >= w THEN d ELSE [i \in 1..(w - Len(d)) |-> "0"] \o d

HexDigit(d) == <<"0", "1", "2", "3", "4", "5", "6", "7", "8", "9",
                 "a", "b", "c", "d", "e", "f">>[d + 1]

RECURSIVE Hex(_)
Hex(n) == IF n < 16 THEN <<HexDigit(n)>>
          ELSE Hex(n \div 16) \o <<HexDigit(n % 16)>>

\* s[-k:]
LastChars(s, k) == IF Len(s) <= k THEN s ELSE SubSeq(s, Len(s) - k + 1, Len(s))

\* s[:k]
FirstChars(s, k) == IF Len(s) <= k THEN s ELSE SubSeq(s, 1, k)

RECURSIVE Join(_, _)
\* sep.join(parts)
Join(sep, parts) ==
    IF Len(parts) = 0 THEN <<>>
    ELSE IF Len(parts) = 1 THEN parts[1]
    ELSE parts[1] \o sep \o Join(sep, Tail(parts))

Contains(s, c) == \E i \in 1..Len(s) : s[i] = c

Range(s) == {s[i] : i \in 1..Len(s)}

IsDigit(c) == c \in {"0", "1", "2", "3", "4", "5", "6", "7", "8", "9"}

\* ----------------------------------------------------------------- hashing
\* A character's code, for the digests below.
Code(c) ==
    CASE IsDigit(c) -> (CHOOSE d \in 0..9 : Digit(d) = c) + 48
      [] c = "|" -> 124
      [] c = "-" -> 45
      [] OTHER -> 63

HashMod == 16777213

RECURSIVE Fold(_, _, _)
Fold(s, mul, h) ==
    IF Len(s) = 0 THEN h
    ELSE Fold(Tail(s), mul, (h * mul + Code(s[1])) % HashMod)

\* int(hashlib.sha256(s.encode()).hexdigest(), 16): a digest of the characters
\* of s in their order.
Sha256Int(s) == Fold(s, 31, 7)

\* hashlib.md5(s.encode()).hexdigest(): 32 hexadecimal characters.
Md5Hex(s) ==
    LET h == Hex(Fold(s, 37, 5))
    IN h \o [i \in 1..(32 - Len(h)) |-> "0"]

stable_hash_to_int(vals, modulo) ==
    LET s == Join(<<"|">>, [i \in 1..Len(vals) |-> Decimal(vals[i])])
    IN Sha256Int(s) % modulo

gen_user_id(ip, device, os_) ==
    <<"U">> \o ZeroPad(stable_hash_to_int(<<ip, device, os_>>, 1000000), 7)

gen_fingerprint(device, os_, app, channel) ==
    LET base == Join(<<"-">>, <<Decimal(device), Decimal(os_), Decimal(app),
                                Decimal(channel)>>)
    IN FirstChars(Md5Hex(base), 16)

email_from_handle(handle, domain) == handle \o <<"@">> \o <<domain>>

\* --------------------------------------------------------------- generator
RngMod == 64

\* One step of the generator; its new state is also its output.
NextRng(x) == (37 * x + 11) % RngMod

RECURSIVE Stream(_, _)
\* The next k outputs of the generator in state x.
Stream(x, k) == IF k = 0 THEN <<>>
                ELSE LET y == NextRng(x) IN <<y>> \o Stream(y, k - 1)

\* The generator's state after the draws us, from state x.
After(x, us) == IF Len(us) = 0 THEN x ELSE us[Len(us)]

\* An output u scaled to 0..r-1.
Below(u, r) == (u * r) \div RngMod

\* np.random.randint(lo, hi): lo <= value < hi
randint(u, lo, hi) == lo + Below(u, hi - lo)

\* np.random.choice(a, size=Len(us), replace=True)
choice(a, us) == [i \in 1..Len(us) |-> a[1 + Below(us[i], Len(a))]]

Swap(a, i, j) == [a EXCEPT ![i] = a[j], ![j] = a[i]]

RECURSIVE Shuffle(_, _, _)
\* np.random.permutation: for i = n .. 2, swap a[i] with a[j], j drawn in 1..i;
\* the draw for position i is us[Len(a) - i + 1].
Shuffle(a, us, i) ==
    IF i < 2 THEN a
    ELSE Shuffle(Swap(a, i, 1 + Below(us[Len(a) - i + 1], i)), us, i - 1)

\* np.random.choice(a, size=k, replace=False): permutation(a)[:k]
choice_without_replacement(a, k, us) == SubSeq(Shuffle(a, us, Len(a)), 1, k)

\* ------------------------------------------------------------------ config
Ad(n) == <<"A", "D">> \o ZeroPad(n, 3)
FRAUD_TARGET_ADS == [n \in 1..5 |-> Ad(n)]
ALL_ADS == [n \in 1..20 |-> Ad(n)]
COUNTRIES == <<"US", "FR", "IN", "CN", "BR", "GB", "DE", "ES", "IT", "MX">>
CONNECTION_TYPES == <<"wifi", "4g", "5g">>
domains == <<"gmail.com", "yahoo.com", "outlook.com", "proton.me">>
fraud_domains == <<"gmail.com", "outlook.com", "mail.ru", "yahoo.com">>

InputColumns == <<"ip", "app", "device", "os", "channel", "click_time",
                  "attributed_time", "is_attributed">>

\* An input row: the source IP varies; click_time is the row's position in
\* the log.
InputRow(ip, t) ==
    [ip |-> ip, app |-> 1, device |-> 1, os |-> 1, channel |-> 1,
     click_time |-> t, attributed_time |-> "", is_attributed |-> 0]

Tables ==
    UNION {{[i \in 1..n |-> InputRow(f[i], i)] : f \in [1..n -> 1..MaxIp]}
           : n \in 0..MaxRows}

\* A file whose header lacks the ip column, and its rows.
NoIpColumns == SelectSeq(InputColumns, LAMBDA c : c # "ip")

NoIpRow(t) ==
    [app |-> 1, device |-> 1, os |-> 1, channel |-> 1,
     click_time |-> t, attributed_time |-> "", is_attributed |-> 0]

NoIpTables == {[i \in 1..n |-> NoIpRow(i)] : n \in 0..MaxRows}

\* The input path: no file, a file with every column, or one without ip.
Files ==
    {[present |-> FALSE, columns |-> <<>>, rows |-> <<>>]}
    \cup {[present |-> TRUE, columns |-> InputColumns, rows |-> t] : t \in Tables}
    \cup {[present |-> TRUE, columns |-> NoIpColumns, rows |-> t] : t \in NoIpTables}

\* No output file on disk.
NoFile == [written |-> FALSE, columns |-> <<>>, rows |-> <<>>]

\* -------------------------------------------------------------------- Init
Init ==
    /\ file \in Files
    /\ hub_fraction \in HubFractions
    /\ seed \in 0..MaxSeed
    /\ hashseed = 0           \* the first process's hash seed is the reference
    /\ rng = seed
    /\ pc = "load"
    /\ df = <<>>
    /\ columns = <<>>
    /\ baseline = <<>>
    /\ unique_ips = <<>>
    /\ hub_ips = {}
    /\ hub_ips_list = <<>>
    /\ clusters = <<>>
    /\ cluster_email_pools = <<>>
    /\ cluster_target_ads = <<>>
    /\ cluster_fingerprints = <<>>
    /\ loop_i = 1
    /\ output = NoFile
    /\ run = 1
    /\ first_output = NoFile
    /\ sub_idx = <<>>
    /\ base_users = <<>>
    /\ perm = <<>>
    /\ df_perm = <<>>
    /\ draws = <<>>
    /\ arg_root = <<"f", "r", "a", "u", "d", "e", "r">>
    /\ arg_size = EMAIL_VARIANTS_PER_CLUSTER
    /\ exists = {}
    /\ step = "idle"
    /\ finished = <<>>
    /\ success_printed = FALSE

\* -------------------------------------------------------------------- Load
\* df = pd.read_csv(INPUT_CSV): an absent file raises and the run ends.
Load ==
    /\ pc = "load"
    /\ IF ~file.present
       THEN /\ pc' = "aborted"
            /\ UNCHANGED <<df, columns>>
       ELSE /\ pc' = "base"
            /\ df' = file.rows
            /\ columns' = file.columns
    /\ UNCHANGED <<file, hub_fraction, seed, hashseed, rng, baseline,
                   unique_ips, hub_ips, hub_ips_list, clusters,
                   cluster_email_pools, cluster_target_ads,
                   cluster_fingerprints, loop_i, output, run, first_output,
                   sub_idx, base_users, perm, df_perm, draws,
                   pool_args, runner_vars>>

\* --------------------------------------------------------- Base enrichment
\* The columns that lines 95-107 read from each row.
RowColumns == {"ip", "device", "os", "app", "channel"}

\* Mutant of BaseEnrichFails: the table read so far is written before the
\* run ends.
BaseEnrichFailsAfterWrite ==
    /\ pc = "base"
    /\ Len(df) > 0
    /\ ~(RowColumns \subseteq Range(columns))
    /\ pc' = "aborted"
    /\ output' = [written |-> TRUE, columns |-> columns, rows |-> df]
    /\ UNCHANGED <<file, hub_fraction, seed, hashseed, rng, df, columns,
                   baseline, unique_ips, hub_ips, hub_ips_list, clusters,
                   cluster_email_pools, cluster_target_ads,
                   cluster_fingerprints, loop_i, run, first_output,
                   sub_idx, base_users, perm, df_perm, draws,
                   pool_args, runner_vars>>

\* row["ip"] raises on the first row when the column is absent (line 96).
BaseEnrichFails ==
    /\ pc = "base"
    /\ Len(df) > 0
    /\ ~(RowColumns \subseteq Range(columns))
    /\ pc' = "aborted"
    /\ UNCHANGED <<file, hub_fraction, seed, hashseed, rng, df, columns,
                   baseline, unique_ips, hub_ips, hub_ips_list, clusters,
                   cluster_email_pools, cluster_target_ads,
                   cluster_fingerprints, loop_i, output, run, first_output,
                   sub_idx, base_users, perm, df_perm, draws,
                   pool_args, runner_vars>>

\* Lines 92-117: six columns are added, in this order; the four random ones
\* draw n values each from the global generator, in source order.
BaseEnrich ==
    /\ pc = "base"
    /\ Len(df) = 0 \/ RowColumns \subseteq Range(columns)
    /\ LET n == Len(df)
           us == Stream(rng, 4 * n)
           ads == choice(ALL_ADS, SubSeq(us, 1, n))
           cos == choice(COUNTRIES, SubSeq(us, n + 1, 2 * n))
           cts == choice(CONNECTION_TYPES, SubSeq(us, 2 * n + 1, 3 * n))
           dms == choice(domains, SubSeq(us, 3 * n + 1, 4 * n))
           uid(i) == gen_user_id(df[i].ip, df[i].device, df[i].os)
           row(i) == df[i] @@
               [ad_id |-> ads[i],
                user_id |-> uid(i),
                country |-> cos[i],
                device_fingerprint |->
                    gen_fingerprint(df[i].device, df[i].os, df[i].app,
                                    df[i].channel),
                connection_type |-> cts[i],
                email |-> email_from_handle(
                              <<"u", "s", "e", "r">> \o LastChars(uid(i), 6),
                              dms[i])]
       IN /\ df' = [i \in 1..n |-> row(i)]
          /\ baseline' = df'
          /\ rng' = After(rng, us)
    /\ columns' = columns \o <<"ad_id", "user_id", "country",
                               "device_fingerprint", "connection_type",
                               "email">>
    /\ pc' = "hubs"
    /\ UNCHANGED <<file, hub_fraction, seed, hashseed, unique_ips, hub_ips,
                   hub_ips_list, clusters, cluster_email_pools,
                   cluster_target_ads, cluster_fingerprints, loop_i, output,
                   run, first_output,
                   sub_idx, base_users, perm, df_perm, draws,
                   pool_args, runner_vars>>

\* ----------------------------------------------------------- Hub selection
Max(a, b) == IF a >= b THEN a ELSE b
Min(a, b) == IF a <= b THEN a ELSE b

RECURSIVE Unique(_, _)
\* pd.Series.unique(): the distinct values, in order of first appearance.
Unique(s, seen) ==
    IF Len(s) = 0 THEN <<>>
    ELSE IF s[1] \in seen THEN Unique(Tail(s), seen)
    ELSE <<s[1]>> \o Unique(Tail(s), seen \cup {s[1]})

\* round(num / den) as Python rounds: to the nearest integer, ties to even.
RoundHalfEven(num, den) ==
    LET q == num \div den
        r == num % den
    IN IF 2 * r < den THEN q
       ELSE IF 2 * r > den THEN q + 1
       ELSE IF q % 2 = 0 THEN q ELSE q + 1

\* Mutant of NumHubIps: the product is rounded instead of truncated.
NumHubIpsRounded(n, pct) == Max(1, RoundHalfEven(n * pct, 100))

\* max(1, int(len(unique_ips) * FRACTION_FRAUD_IPS)), the fraction in percent;
\* int() truncates, and the products of 0.05 and 0.75 met here are exact.
NumHubIps(n, pct) == Max(1, (n * pct) \div 100)

\* df["ip"] raises when the table has no ip column (line 121).
SelectHubsFails ==
    /\ pc = "hubs"
    /\ "ip" \notin Range(columns)
    /\ pc' = "aborted"
    /\ UNCHANGED <<file, hub_fraction, seed, hashseed, rng, df, columns,
                   baseline, unique_ips, hub_ips, hub_ips_list, clusters,
                   cluster_email_pools, cluster_target_ads,
                   cluster_fingerprints, loop_i, output, run, first_output,
                   sub_idx, base_users, perm, df_perm, draws,
                   pool_args, runner_vars>>

\* Lines 121-123.  np.random.choice raises on an empty population with a
\* non-zero size, which ends the run.
SelectHubs ==
    /\ pc = "hubs"
    /\ "ip" \in Range(columns)
    /\ LET u == Unique([i \in 1..Len(df) |-> df[i].ip], {})
           num_hub_ips == NumHubIps(Len(u), hub_fraction)
           us == Stream(rng, Max(0, Len(u) - 1))
       IN /\ unique_ips' = u
          /\ IF Len(u) = 0
             THEN /\ pc' = "aborted"
                  /\ UNCHANGED <<hub_ips, rng>>
             ELSE /\ hub_ips' =
                         Range(choice_without_replacement(u, num_hub_ips, us))
                  /\ rng' = After(rng, us)
                  /\ pc' = "clusters"
    /\ UNCHANGED <<file, hub_fraction, seed, hashseed, df, columns, baseline,
                   hub_ips_list, clusters, cluster_email_pools,
                   cluster_target_ads, cluster_fingerprints, loop_i, output,
                   run, first_output,
                   sub_idx, base_users, perm, df_perm, draws,
                   pool_args, runner_vars>>

\* --------------------------------------------------------- Cluster builder
RECURSIVE IntSetList(_)
\* list(s) for a set s of small non-negative integers: an integer hashes to
\* itself and the set's slots are walked in index order, which is ascending.
IntSetList(s) ==
    IF s = {} THEN <<>>
    ELSE LET m == CHOOSE x \in s : \A y \in s : x <= y
         IN <<m>> \o IntSetList(s \ {m})

RECURSIVE ClusterLoopOverlap(_, _, _, _, _)
\* Mutant of ClusterLoop: the cursor advances by one less than the block.
ClusterLoopOverlap(list, sizes, cursor, cid, acc) ==
    IF ~(cursor < Len(list)) THEN acc
    ELSE LET size == sizes[cid]
             block == SubSeq(list, cursor + 1, Min(cursor + size, Len(list)))
         IN ClusterLoopOverlap(list, sizes, cursor + size - 1, cid + 1,
                               Append(acc, [cluster_id |-> cid, ips |-> block]))

RECURSIVE ClusterLoopIdFromCursor(_, _, _, _, _)
\* Mutant of ClusterLoop: a cluster's id is the position its block starts at.
ClusterLoopIdFromCursor(list, sizes, cursor, cid, acc) ==
    IF ~(cursor < Len(list)) THEN acc
    ELSE LET size == sizes[cid]
             block == SubSeq(list, cursor + 1, Min(cursor + size, Len(list)))
         IN ClusterLoopIdFromCursor(list, sizes, cursor + size, cid + 1,
                Append(acc, [cluster_id |-> cursor + 1, ips |-> block]))

RECURSIVE ClusterLoopShort(_, _, _, _, _)
\* Mutant of ClusterLoop: a block holds one IP less than the size drawn.
ClusterLoopShort(list, sizes, cursor, cid, acc) ==
    IF ~(cursor < Len(list)) THEN acc
    ELSE LET size == sizes[cid] - 1
             block == SubSeq(list, cursor + 1, Min(cursor + size, Len(list)))
         IN ClusterLoopShort(list, sizes, cursor + size, cid + 1,
                             Append(acc, [cluster_id |-> cid, ips |-> block]))

RECURSIVE ClusterLoop(_, _, _, _, _)
\* The while loop of lines 128-135; sizes[k] is the k-th drawn group size.
\* cursor counts from 0 as in the script.
ClusterLoop(list, sizes, cursor, cid, acc) ==
    IF ~(cursor < Len(list)) THEN acc
    ELSE LET size == sizes[cid]
             block == SubSeq(list, cursor + 1, Min(cursor + size, Len(list)))
         IN ClusterLoop(list, sizes, cursor + size, cid + 1,
                        Append(acc, [cluster_id |-> cid, ips |-> block]))

\* Lines 126-135: the loop draws one size per cluster it appends.
BuildClusters ==
    /\ pc = "clusters"
    /\ LET list == IntSetList(hub_ips)
           us == Stream(rng, Len(list))
           sizes == [k \in 1..Len(list) |->
                        randint(us[k], CLUSTER_MIN_SIZE, CLUSTER_MAX_SIZE + 1)]
           cs == ClusterLoop(list, sizes, 0, 1, <<>>)
       IN /\ hub_ips_list' = list
          /\ clusters' = cs
          /\ rng' = After(rng, SubSeq(us, 1, Len(cs)))
    /\ pc' = "pools"
    /\ UNCHANGED <<file, hub_fraction, seed, hashseed, df, columns, baseline,
                   unique_ips, hub_ips, cluster_email_pools,
                   cluster_target_ads, cluster_fingerprints, loop_i, output,
                   run, first_output,
                   sub_idx, base_users, perm, df_perm, draws,
                   pool_args, runner_vars>>

\* ------------------------------------------------------------- Email pools
\* The variant helpers take the generator's state x and return the handle with
\* the state after their draw, if they drew.
plus_variant(handle, x) ==
    LET y == NextRng(x)
    IN [h |-> handle \o <<"+", "p", "r", "o", "m", "o">>
                     \o Decimal(randint(y, 1, 9)),
        x |-> y]

InsertAt(handle, pos, c) ==
    SubSeq(handle, 1, pos) \o <<c>> \o SubSeq(handle, pos + 1, Len(handle))

\* dot_variant with the position drawn over every gap of the handle, both
\* ends included.
dot_variantAnyPos(handle, x) ==
    IF Contains(handle, ".") \/ Len(handle) < 3 THEN [h |-> handle, x |-> x]
    ELSE LET y == NextRng(x)
         IN [h |-> InsertAt(handle, randint(y, 0, Len(handle) + 1), "."),
             x |-> y]

dot_variant(handle, x) ==
    IF Contains(handle, ".") \/ Len(handle) < 3 THEN [h |-> handle, x |-> x]
    ELSE LET y == NextRng(x)
         IN [h |-> InsertAt(handle, randint(y, 1, Len(handle) - 1), "."),
             x |-> y]

underscore_variant(handle, x) ==
    IF Contains(handle, "_") \/ Len(handle) < 3 THEN [h |-> handle, x |-> x]
    ELSE LET y == NextRng(x)
         IN [h |-> InsertAt(handle, randint(y, 1, Len(handle) - 1), "_"),
             x |-> y]

RECURSIVE Dedup(_, _)
Dedup(s, seen) ==
    IF Len(s) = 0 THEN <<>>
    ELSE IF s[1] \in seen THEN Dedup(Tail(s), seen)
    ELSE <<s[1]>> \o Dedup(Tail(s), seen \cup {s[1]})

\* list(set(pool)) for strings: the distinct elements, in an order that is a
\* function of the process's string-hash seed h (a rotation of them here).
StrSetList(pool, h) ==
    LET d == Dedup(pool, {})
        n == Len(d)
    IN [i \in 1..n |-> d[((i - 1 + h) % n) + 1]]

RECURSIVE PoolLoop(_, _, _)
\* The for loop of build_email_pool over base_handles, from generator state x.
PoolLoop(base_handles, pool, x) ==
    IF Len(base_handles) = 0 THEN [pool |-> pool, x |-> x]
    ELSE LET h == base_handles[1]
             p == plus_variant(h, x)
             d == dot_variant(h, p.x)
             u == underscore_variant(h, d.x)
         IN PoolLoop(Tail(base_handles), pool \o <<h, p.h, d.h, u.h>>, u.x)

build_email_pool(base_root, pool_size, x, h) ==
    LET base_handles == [i \in 1..pool_size |-> base_root \o ZeroPad(i - 1, 3)]
        r == PoolLoop(base_handles, <<>>, x)
    IN [pool |-> StrSetList(r.pool, h), x |-> r.x]

RECURSIVE PoolsLoop(_, _, _, _)
\* The dict comprehension of line 149, cluster by cluster.
PoolsLoop(k, n, acc, x) ==
    IF k > n THEN [pools |-> acc, x |-> x]
    ELSE LET r == build_email_pool(<<"f", "r", "a", "u", "d", "e", "r">>,
                                   EMAIL_VARIANTS_PER_CLUSTER, x, hashseed)
         IN PoolsLoop(k + 1, n, Append(acc, r.pool), r.x)

\* Line 149; cluster ids are 1..Len(clusters), so the dictionaries keyed by
\* cluster id are sequences.
BuildPools ==
    /\ pc = "pools"
    /\ LET r == PoolsLoop(1, Len(clusters), <<>>, rng)
       IN /\ cluster_email_pools' = r.pools
          /\ rng' = r.x
    /\ pc' = "attrs"
    /\ UNCHANGED <<file, hub_fraction, seed, hashseed, df, columns, baseline,
                   unique_ips, hub_ips, hub_ips_list, clusters,
                   cluster_target_ads, cluster_fingerprints, loop_i, output,
                   run, first_output,
                   sub_idx, base_users, perm, df_perm, draws,
                   pool_args, runner_vars>>

\* ------------------------------------------- Target ads and fingerprints
RECURSIVE TargetsLoop(_, _, _, _)
\* Lines 152-155: per cluster the size is drawn first (it is an argument of
\* the call), then the permutation of FRAUD_TARGET_ADS.
TargetsLoop(k, n, acc, x) ==
    IF k > n THEN [targets |-> acc, x |-> x]
    ELSE LET us == Stream(x, Len(FRAUD_TARGET_ADS))
             size == randint(us[1], 1, 4)
             t == choice_without_replacement(FRAUD_TARGET_ADS, size, Tail(us))
         IN TargetsLoop(k + 1, n, Append(acc, t), After(x, us))

\* Lines 156-159.
ClusterFingerprint(c) ==
    <<"f", "p", "_">> \o ZeroPad(stable_hash_to_int(c.ips, 100000000), 8)

ClusterAttributes ==
    /\ pc = "attrs"
    /\ LET r == TargetsLoop(1, Len(clusters), <<>>, rng)
       IN /\ cluster_target_ads' = r.targets
          /\ rng' = r.x
    /\ cluster_fingerprints' =
           [k \in 1..Len(clusters) |-> ClusterFingerprint(clusters[k])]
    /\ pc' = "flags"
    /\ UNCHANGED <<file, hub_fraction, seed, hashseed, df, columns, baseline,
                   unique_ips, hub_ips, hub_ips_list, clusters,
                   cluster_email_pools, loop_i, output, run, first_output,
                   sub_idx, base_users, perm, df_perm, draws,
                   pool_args, runner_vars>>

\* Mutant of InitFlags: the two flag columns are inserted before email.
InitFlagsBeforeEmail ==
    /\ pc = "flags"
    /\ df' = [i \in 1..Len(df) |->
                 df[i] @@ [fraud_cluster_id |-> 0, is_synthetic_fraud |-> FALSE]]
    /\ columns' = SubSeq(columns, 1, Len(columns) - 1)
                      \o <<"fraud_cluster_id", "is_synthetic_fraud">>
                      \o <<columns[Len(columns)]>>
    /\ pc' = "override"
    /\ UNCHANGED <<file, hub_fraction, seed, hashseed, rng, baseline,
                   unique_ips, hub_ips, hub_ips_list, clusters,
                   cluster_email_pools, cluster_target_ads,
                   cluster_fingerprints, loop_i, output, run, first_output,
                   sub_idx, base_users, perm, df_perm, draws,
                   pool_args, runner_vars>>

\* Lines 162-163.
InitFlags ==
    /\ pc = "flags"
    /\ df' = [i \in 1..Len(df) |->
                 df[i] @@ [fraud_cluster_id |-> 0, is_synthetic_fraud |-> FALSE]]
    /\ columns' = columns \o <<"fraud_cluster_id", "is_synthetic_fraud">>
    /\ pc' = "override"
    /\ UNCHANGED <<file, hub_fraction, seed, hashseed, rng, baseline,
                   unique_ips, hub_ips, hub_ips_list, clusters,
                   cluster_email_pools, cluster_target_ads,
                   cluster_fingerprints, loop_i, output, run, first_output,
                   sub_idx, base_users, perm, df_perm, draws,
                   pool_args, runner_vars>>

\* ------------------------------------------------------ Override loop body
RECURSIVE MaskIndexAnyHub(_, _, _)
\* Mutant of MaskIndex: the mask tests membership in the whole hub set.
MaskIndexAnyHub(d, ips, i) ==
    IF i > Len(d) THEN <<>>
    ELSE (IF d[i].ip \in hub_ips THEN <<i>> ELSE <<>>)
             \o MaskIndexAnyHub(d, ips, i + 1)

RECURSIVE MaskIndex(_, _, _)
\* The index labels of the rows that mask = df["ip"].isin(ips) selects, in
\* table order; read_csv labels the rows 0..n-1, here 1..n.
MaskIndex(d, ips, i) ==
    IF i > Len(d) THEN <<>>
    ELSE (IF d[i].ip \in ips THEN <<i>> ELSE <<>>) \o MaskIndex(d, ips, i + 1)

\* Mutant of SampleSize: the product is truncated.
SampleSizeFloor(m) == (30 * m) \div 100

\* DataFrame.sample(frac=0.30): the sample holds round(0.30 * len) rows.
SampleSize(m) == RoundHalfEven(30 * m, 100)

\* Mutant of SampleIndex: the sampled positions are used as index labels.
SampleIndexPositions(idx, x0) ==
    LET m == Len(idx)
    IN choice_without_replacement([j \in 1..m |-> j], SampleSize(m),
                                  Stream(x0, m - 1))

\* df.loc[mask].sample(frac=0.30, random_state=SEED).index: a generator newly
\* seeded with SEED permutes the positions of the masked rows; the first
\* SampleSize are taken, and the result is their index labels.
SampleIndex(idx, x0) ==
    LET m == Len(idx)
        pos == choice_without_replacement([j \in 1..m |-> j], SampleSize(m),
                                          Stream(x0, m - 1))
    IN [j \in 1..Len(pos) |-> idx[pos[j]]]

\* random_handle(base, span) with the draw u
random_handle(base, span, u) == base \o ZeroPad(randint(u, 0, span), 6)

\* The position of label i in the sequence of labels idx.
PosIn(idx, i) == CHOOSE p \in 1..Len(idx) : idx[p] = i

\* Mutant of MarkRow: only the cluster id is written.
MarkRowIdOnly(r, cid) == [r EXCEPT !.fraud_cluster_id = cid]

\* Lines 173-174: the two flag columns of a masked row.
MarkRow(r, cid) ==
    [r EXCEPT !.fraud_cluster_id = cid, !.is_synthetic_fraud = TRUE]

\* Mutant of RowAds: the ads are drawn from the whole fraud-prone list.
RowAdsAnyFraudAd(cid, us) == choice(FRAUD_TARGET_ADS, us)

\* Line 177: one ad per masked row, from the cluster's target ads.
RowAds(cid, us) == choice(cluster_target_ads[cid], us)

\* Mutant of RowFingerprint: the fingerprint is hashed from the row's own IP.
RowFingerprintOfRowIp(r, cid) ==
    <<"f", "p", "_">> \o ZeroPad(stable_hash_to_int(<<r.ip>>, 100000000), 8)

\* Line 180: the fingerprint written to masked row r.
RowFingerprint(r, cid) == cluster_fingerprints[cid]

\* Line 183: one handle per masked row, from the cluster's pool.
RowHandles(cid, us) == choice(cluster_email_pools[cid], us)

\* Mutant of RowDomains: the domains are drawn from the baseline list.
RowDomainsBaseline(us) == choice(domains, us)

\* Line 184: one domain per masked row.
RowDomains(us) == choice(fraud_domains, us)

\* Mutant of NumBaseUsers: the floor of 50 identities is dropped.
NumBaseUsersTenth(m) == Max(1, m \div 10)

\* Line 189: the number of synthetic identities for a mask of m rows.
NumBaseUsers(m) == Max(50, m \div 10)

\* Mutant of RowUsers: the current user_id values of every row of the table
\* join the universe, not only those of the masked rows.
RowUsersWholeTable(d, idx, pool, us) ==
    choice([j \in 1..Len(d) |-> d[j].user_id] \o pool, us)

\* Lines 190-192: one user_id per masked row, drawn from the synthetic
\* identities followed by the current user_id values of the masked rows.
RowUsers(d, idx, pool, us) ==
    choice(pool \o [j \in 1..Len(idx) |-> d[idx[j]].user_id], us)

\* One iteration of "for c in clusters" (lines 166-197) on table d with the
\* global generator in state x: the table and the generator afterwards, and
\* the values left in base_users and sub_idx.  An empty mask skips the body.
OverrideCluster(d, c, x) ==
    LET cid == c.cluster_id
        idx == MaskIndex(d, Range(c.ips), 1)
        m == Len(idx)
        nb == NumBaseUsers(m)
        sub == SampleIndex(idx, seed)
        k == Len(sub)
        us == Stream(x, 4 * m + nb + k)
        ads == RowAds(cid, SubSeq(us, 1, m))
        handles == RowHandles(cid, SubSeq(us, m + 1, 2 * m))
        doms == RowDomains(SubSeq(us, 2 * m + 1, 3 * m))
        bu == [j \in 1..nb |-> random_handle(<<"u">>, 999999, us[3 * m + j])]
        users == RowUsers(d, idx, bu, SubSeq(us, 3 * m + nb + 1, 4 * m + nb))
        cos == choice(COUNTRIES, SubSeq(us, 4 * m + nb + 1, 4 * m + nb + k))
        marked(i) ==
            LET p == PosIn(idx, i)
            IN [MarkRow(d[i], cid) EXCEPT
                    !.ad_id = ads[p],
                    !.device_fingerprint = RowFingerprint(d[i], cid),
                    !.email = email_from_handle(handles[p], doms[p]),
                    !.user_id = users[p]]
        d1 == [i \in 1..Len(d) |->
                  IF i \in Range(idx) THEN marked(i) ELSE d[i]]
        d2 == [i \in 1..Len(d) |->
                  IF i \in Range(sub)
                  THEN [d1[i] EXCEPT !.country = cos[PosIn(sub, i)]]
                  ELSE d1[i]]
    IN IF m = 0
       THEN [df |-> d, x |-> x, skipped |-> TRUE, base_users |-> <<>>,
             sub_idx |-> <<>>]
       ELSE [df |-> d2, x |-> After(x, us), skipped |-> FALSE,
             base_users |-> bu, sub_idx |-> sub]

Override ==
    /\ pc = "override"
    /\ loop_i <= Len(clusters)
    /\ \E r \in {OverrideCluster(df, clusters[loop_i], rng)} :
          /\ df' = r.df
          /\ rng' = r.x
          /\ base_users' = IF r.skipped THEN base_users ELSE r.base_users
          /\ sub_idx' = IF r.skipped THEN sub_idx ELSE r.sub_idx
    /\ loop_i' = loop_i + 1
    /\ UNCHANGED <<file, hub_fraction, seed, hashseed, pc, columns, baseline,
                   unique_ips, hub_ips, hub_ips_list, clusters,
                   cluster_email_pools, cluster_target_ads,
                   cluster_fingerprints, output, run, first_output,
                   perm, df_perm, draws, pool_args, runner_vars>>

\* -------------------------------------------------------------------- Save
\* Mutant of OutputRows: only the fraud rows are written.
OutputFraudRowsOnly(d) == SelectSeq(d, LAMBDA r : r.fraud_cluster_id > 0)

\* df.to_csv(path, index=False) writes every row of the table, in order.
OutputRows(d) == d

\* Lines 200-201, after the loop.
Save ==
    /\ pc = "override"
    /\ loop_i > Len(clusters)
    /\ output' = [written |-> TRUE, columns |-> columns,
                  rows |-> OutputRows(df)]
    /\ pc' = "done"
    /\ UNCHANGED <<file, hub_fraction, seed, hashseed, rng, df, columns,
                   baseline, unique_ips, hub_ips, hub_ips_list, clusters,
                   cluster_email_pools, cluster_target_ads,
                   cluster_fingerprints, loop_i, run, first_output,
                   sub_idx, base_users, perm, df_perm, draws,
                   pool_args, runner_vars>>

\* ------------------------------------------------- Second run, same input
\* The script is started again on the same input file: the seed is the same
\* constant, the interpreter draws a new string-hash seed, and the first
\* run's output file is kept aside for comparison.
Rerun ==
    /\ pc = "done"
    /\ run = 1
    /\ run' = 2
    /\ first_output' = output
    /\ hashseed' \in 0..MaxHashSeed
    /\ rng' = seed
    /\ pc' = "load"
    /\ df' = <<>>
    /\ columns' = <<>>
    /\ baseline' = <<>>
    /\ unique_ips' = <<>>
    /\ hub_ips' = {}
    /\ hub_ips_list' = <<>>
    /\ clusters' = <<>>
    /\ cluster_email_pools' = <<>>
    /\ cluster_target_ads' = <<>>
    /\ cluster_fingerprints' = <<>>
    /\ loop_i' = 1
    /\ output' = NoFile
    /\ sub_idx' = <<>>
    /\ base_users' = <<>>
    /\ UNCHANGED <<file, hub_fraction, seed, perm, df_perm, draws,
                   pool_args, runner_vars>>

\* ------------------------------------- Override loop, in two orders
\* The orders in which a list of n clusters can be walked.
Perms(n) == {p \in [1..n -> 1..n] : \A i, j \in 1..n : p[i] = p[j] => i = j}

\* Before the loop of line 165 starts on a list of several clusters (one
\* cluster has one order only): an order perm of the cluster list is
\* chosen, a copy of the table is set aside for it, and every cluster is
\* given the generator state its own draws will start in, whatever the
\* position at which it is processed.
ChooseOrder ==
    /\ pc = "override"
    /\ loop_i = 1
    /\ Len(clusters) >= 2
    /\ perm' \in Perms(Len(clusters))
    /\ draws' \in [1..Len(clusters) -> 0..MaxSeed]
    /\ df_perm' = df
    /\ pc' = "order"
    /\ UNCHANGED <<file, hub_fraction, seed, hashseed, rng, df, columns,
                   baseline, unique_ips, hub_ips, hub_ips_list, clusters,
                   cluster_email_pools, cluster_target_ads,
                   cluster_fingerprints, loop_i, output, run, first_output,
                   sub_idx, base_users, pool_args, runner_vars>>

\* The loop body of lines 166-197 is run on df for the loop_i-th cluster
\* of the list and on df_perm for the loop_i-th cluster of the order perm.
OverrideBoth ==
    /\ pc = "order"
    /\ loop_i <= Len(clusters)
    /\ df' = OverrideCluster(df, clusters[loop_i], draws[loop_i]).df
    /\ df_perm' = OverrideCluster(df_perm, clusters[perm[loop_i]],
                                  draws[perm[loop_i]]).df
    /\ loop_i' = loop_i + 1
    /\ UNCHANGED <<file, hub_fraction, seed, hashseed, rng, pc, columns,
                   baseline, unique_ips, hub_ips, hub_ips_list, clusters,
                   cluster_email_pools, cluster_target_ads,
                   cluster_fingerprints, output, run, first_output,
                   sub_idx, base_users, perm, draws,
                   pool_args, runner_vars>>

\* ------------------------------------------- Cluster builder, taken alone
\* The cluster builder on any hub set of at most MaxHubs IPs, with any
\* sequence of group sizes the draw of line 131 can return.
InitCluster ==
    /\ file = [present |-> FALSE, columns |-> <<>>, rows |-> <<>>]
    /\ hub_fraction = 5
    /\ seed = 0
    /\ hashseed = 0
    /\ rng = 0
    /\ pc = "cut"
    /\ df = <<>>
    /\ columns = <<>>
    /\ baseline = <<>>
    /\ unique_ips = <<>>
    /\ hub_ips \in SUBSET (1..MaxHubs)
    /\ hub_ips_list = <<>>
    /\ clusters = <<>>
    /\ cluster_email_pools = <<>>
    /\ cluster_target_ads = <<>>
    /\ cluster_fingerprints = <<>>
    /\ loop_i = 1
    /\ output = NoFile
    /\ run = 1
    /\ first_output = NoFile
    /\ sub_idx = <<>>
    /\ base_users = <<>>
    /\ perm = <<>>
    /\ df_perm = <<>>
    /\ draws = <<>>
    /\ arg_root = <<"f", "r", "a", "u", "d", "e", "r">>
    /\ arg_size = EMAIL_VARIANTS_PER_CLUSTER
    /\ exists = {}
    /\ step = "idle"
    /\ finished = <<>>
    /\ success_printed = FALSE

\* The sizes that np.random.randint(CLUSTER_MIN_SIZE, CLUSTER_MAX_SIZE + 1)
\* returns over all outputs of the generator.
GroupSizes ==
    {randint(u, CLUSTER_MIN_SIZE, CLUSTER_MAX_SIZE + 1) : u \in 0..(RngMod - 1)}

CutClusters ==
    /\ pc = "cut"
    /\ LET list == IntSetList(hub_ips)
       IN \E sizes \in [1..Len(list) -> GroupSizes] :
             /\ hub_ips_list' = list
             /\ clusters' = ClusterLoop(list, sizes, 0, 1, <<>>)
    /\ pc' = "cut_done"
    /\ UNCHANGED <<file, hub_fraction, seed, hashseed, rng, df, columns,
                   baseline, unique_ips, hub_ips, cluster_email_pools,
                   cluster_target_ads, cluster_fingerprints, loop_i, output,
                   run, first_output,
                   sub_idx, base_users, perm, df_perm, draws,
                   pool_args, runner_vars>>

\* --------------------------------------------- Email pool, taken alone
\* Roots that build_email_pool may be given: the script's "frauder", shorter
\* ones down to the empty string, and two that already hold a "." or a "_".
PoolRoots ==
    {<<>>, <<"a">>, <<"a", "b">>, <<"f", "r", "a", "u", "d", "e", "r">>,
     <<"a", ".", "b">>, <<"a", "_", "b">>}

\* One call of build_email_pool, with any root of PoolRoots, any pool size up
\* to MaxPoolSize, the generator in any state and any string-hash seed.
InitPool ==
    /\ file = [present |-> FALSE, columns |-> <<>>, rows |-> <<>>]
    /\ hub_fraction = 5
    /\ seed = 0
    /\ hashseed \in 0..MaxHashSeed
    /\ rng \in 0..(RngMod - 1)
    /\ pc = "pool"
    /\ df = <<>>
    /\ columns = <<>>
    /\ baseline = <<>>
    /\ unique_ips = <<>>
    /\ hub_ips = {}
    /\ hub_ips_list = <<>>
    /\ clusters = <<>>
    /\ cluster_email_pools = <<>>
    /\ cluster_target_ads = <<>>
    /\ cluster_fingerprints = <<>>
    /\ loop_i = 1
    /\ output = NoFile
    /\ run = 1
    /\ first_output = NoFile
    /\ sub_idx = <<>>
    /\ base_users = <<>>
    /\ perm = <<>>
    /\ df_perm = <<>>
    /\ draws = <<>>
    /\ arg_root \in PoolRoots
    /\ arg_size \in 0..MaxPoolSize
    /\ exists = {}
    /\ step = "idle"
    /\ finished = <<>>
    /\ success_printed = FALSE

\* Lines 138-147 on those arguments; the pool returned is kept as the pool of
\* cluster 1.
BuildPool ==
    /\ pc = "pool"
    /\ \E r \in {build_email_pool(arg_root, arg_size, rng, hashseed)} :
          /\ cluster_email_pools' = <<r.pool>>
          /\ rng' = r.x
    /\ pc' = "pool_done"
    /\ UNCHANGED <<file, hub_fraction, seed, hashseed, df, columns, baseline,
                   unique_ips, hub_ips, hub_ips_list, clusters,
                   cluster_target_ads, cluster_fingerprints, loop_i, output,
                   run, first_output, sub_idx, base_users, perm, df_perm,
                   draws, pool_args, runner_vars>>

\* ------------------------------------ Cluster fingerprint, taken alone
\* The lists of pairwise distinct IPs, of 1 to MaxIp entries.
IpLists ==
    UNION {{l \in [1..n -> 1..MaxIp] : \A i, j \in 1..n : l[i] = l[j] => i = j}
           : n \in 1..MaxIp}

\* Two cluster records whose hub-IP lists hold the same IPs, in any two orders.
InitFingerprint ==
    /\ file = [present |-> FALSE, columns |-> <<>>, rows |-> <<>>]
    /\ hub_fraction = 5
    /\ seed = 0
    /\ hashseed = 0
    /\ rng = 0
    /\ pc = "fp"
    /\ df = <<>>
    /\ columns = <<>>
    /\ baseline = <<>>
    /\ unique_ips = <<>>
    /\ hub_ips = {}
    /\ hub_ips_list = <<>>
    /\ clusters \in {<<[cluster_id |-> 1, ips |-> a], [cluster_id |-> 2, ips |-> b]>> :
                        a, b \in IpLists}
    /\ Range(clusters[1].ips) = Range(clusters[2].ips)
    /\ cluster_email_pools = <<>>
    /\ cluster_target_ads = <<>>
    /\ cluster_fingerprints = <<>>
    /\ loop_i = 1
    /\ output = NoFile
    /\ run = 1
    /\ first_output = NoFile
    /\ sub_idx = <<>>
    /\ base_users = <<>>
    /\ perm = <<>>
    /\ df_perm = <<>>
    /\ draws = <<>>
    /\ arg_root = <<"f", "r", "a", "u", "d", "e", "r">>
    /\ arg_size = EMAIL_VARIANTS_PER_CLUSTER
    /\ exists = {}
    /\ step = "idle"
    /\ finished = <<>>
    /\ success_printed = FALSE

\* Lines 156-159 on those clusters.
ComputeFingerprints ==
    /\ pc = "fp"
    /\ cluster_fingerprints' =
           [k \in 1..Len(clusters) |-> ClusterFingerprint(clusters[k])]
    /\ pc' = "fp_done"
    /\ UNCHANGED <<file, hub_fraction, seed, hashseed, rng, df, columns,
                   baseline, unique_ips, hub_ips, hub_ips_list, clusters,
                   cluster_email_pools, cluster_target_ads, loop_i, output,
                   run, first_output, sub_idx, base_users, perm, df_perm,
                   draws, pool_args, runner_vars>>

\* ------------------------------------------------------ scripts/run_all.py
\* The program and the files whose presence the runner tests.
RunnerFiles ==
    {"psql", "load_data.py", "clean_data.py", "create_bi_views.sql",
     "create_bi_feature_views.sql", "train_baseline.py"}

\* The return codes of a command, zero or not.
ExitCodes == {0, 1}

\* The variables of the enrichment script, which the runner leaves alone.
enrich_vars ==
    <<file, hub_fraction, seed, hashseed, rng, pc, df, columns, baseline,
      unique_ips, hub_ips, hub_ips_list, clusters, cluster_email_pools,
      cluster_target_ads, cluster_fingerprints, loop_i, output, run,
      first_output, sub_idx, base_users, perm, df_perm, draws, pool_args>>

\* The runner starts in any environment, nothing run, nothing printed.
InitRunAll ==
    /\ file = [present |-> FALSE, columns |-> <<>>, rows |-> <<>>]
    /\ hub_fraction = 5
    /\ seed = 0
    /\ hashseed = 0
    /\ rng = 0
    /\ pc = "idle"
    /\ df = <<>>
    /\ columns = <<>>
    /\ baseline = <<>>
    /\ unique_ips = <<>>
    /\ hub_ips = {}
    /\ hub_ips_list = <<>>
    /\ clusters = <<>>
    /\ cluster_email_pools = <<>>
    /\ cluster_target_ads = <<>>
    /\ cluster_fingerprints = <<>>
    /\ loop_i = 1
    /\ output = NoFile
    /\ run = 1
    /\ first_output = NoFile
    /\ sub_idx = <<>>
    /\ base_users = <<>>
    /\ perm = <<>>
    /\ df_perm = <<>>
    /\ draws = <<>>
    /\ arg_root = <<"f", "r", "a", "u", "d", "e", "r">>
    /\ arg_size = EMAIL_VARIANTS_PER_CLUSTER
    /\ exists \in SUBSET RunnerFiles
    /\ step = "find_psql"
    /\ finished = <<>>
    /\ success_printed = FALSE

\* run(cmd): the command returns some code; a non-zero code raises
\* SystemExit, code 0 lets the script go on to the step next.
RunCommand(name, next) ==
    \E code \in ExitCodes :
        IF code # 0
        THEN /\ step' = "exit"
             /\ finished' = finished
        ELSE /\ step' = next
             /\ finished' = Append(finished, name)

\* require_file(path) then run(...): a missing file raises SystemExit.
RequireAndRun(path, name, next) ==
    IF path \notin exists
    THEN /\ step' = "exit"
         /\ finished' = finished
    ELSE RunCommand(name, next)

\* Lines 38-48: psql is looked up; without it the run ends.
FindPsql ==
    /\ step = "find_psql"
    /\ step' = IF "psql" \in exists THEN "check_db" ELSE "exit"
    /\ UNCHANGED <<enrich_vars, exists, finished, success_printed>>

\* Step 0, lines 50-57.
CheckDb ==
    /\ step = "check_db"
    /\ RunCommand("check_db", "load_data")
    /\ UNCHANGED <<enrich_vars, exists, success_printed>>

\* Step 1, lines 59-63.
LoadData ==
    /\ step = "load_data"
    /\ RequireAndRun("load_data.py", "load_data", "clean_data")
    /\ UNCHANGED <<enrich_vars, exists, success_printed>>

\* Step 2, lines 65-69.
CleanData ==
    /\ step = "clean_data"
    /\ RequireAndRun("clean_data.py", "clean_data", "bi_views")
    /\ UNCHANGED <<enrich_vars, exists, success_printed>>

\* Step 3, lines 71-75.
BiViews ==
    /\ step = "bi_views"
    /\ RequireAndRun("create_bi_views.sql", "bi_views", "feature_views")
    /\ UNCHANGED <<enrich_vars, exists, success_printed>>

\* Step 4, lines 77-83: run if the file exists, skipped otherwise.
FeatureViews ==
    /\ step = "feature_views"
    /\ IF "create_bi_feature_views.sql" \in exists
       THEN RunCommand("feature_views", "announce")
       ELSE /\ step' = "announce"
            /\ finished' = finished
    /\ UNCHANGED <<enrich_vars, exists, success_printed>>

\* Line 85: print("All steps completed successfully.").
Announce ==
    /\ step = "announce"
    /\ success_printed' = TRUE
    /\ step' = "train"
    /\ UNCHANGED <<enrich_vars, exists, finished>>

\* Step 5, lines 87-93: run if the file exists, skipped otherwise.
TrainBaseline ==
    /\ step = "train"
    /\ IF "train_baseline.py" \in exists
       THEN RunCommand("train", "end")
       ELSE /\ step' = "end"
            /\ finished' = finished
    /\ UNCHANGED <<enrich_vars, exists, success_printed>>

NextRunAll ==
    \/ FindPsql
    \/ CheckDb
    \/ LoadData
    \/ CleanData
    \/ BiViews
    \/ FeatureViews
    \/ Announce
    \/ TrainBaseline

\* One execution of scripts/run_all.py.
SpecRunAll == InitRunAll /\ [][NextRunAll]_vars

Next ==
    \/ Load
    \/ BaseEnrich
    \/ BaseEnrichFails
    \/ SelectHubs
    \/ SelectHubsFails
    \/ BuildClusters
    \/ BuildPools
    \/ ClusterAttributes
    \/ InitFlags
    \/ Override
    \/ Save

Spec == Init /\ [][Next]_vars

\* Two runs on the same input.
NextDet == Next \/ Rerun
SpecDet == Init /\ [][NextDet]_vars

\* The cluster builder alone.
SpecCluster == InitCluster /\ [][CutClusters]_vars

\* The cluster fingerprint alone.
SpecFingerprint == InitFingerprint /\ [][ComputeFingerprints]_vars

\* build_email_pool alone.
SpecPool == InitPool /\ [][BuildPool]_vars

\* The run up to the override loop, then the loop in two orders.
NextOrder ==
    \/ Load
    \/ BaseEnrich
    \/ BaseEnrichFails
    \/ SelectHubs
    \/ SelectHubsFails
    \/ BuildClusters
    \/ BuildPools
    \/ ClusterAttributes
    \/ InitFlags
    \/ ChooseOrder
    \/ OverrideBoth
SpecOrder == Init /\ [][NextOrder]_vars

\* ==================================================================
\* Properties
\* ==================================================================
\* The override loop has run over every cluster.
LoopEnded == pc = "done" \/ (pc = "override" /\ loop_i > Len(clusters))

Rows == 1..Len(df)

\* The cluster ids whose hub-IP list holds ip.
ClustersOf(ip) ==
    {clusters[k].cluster_id : k \in {j \in 1..Len(clusters) :
                                         ip \in Range(clusters[j].ips)}}

FraudRows == {r \in Rows : df[r].fraud_cluster_id > 0}

\* Two clusters were built, each has rows, and a row lies outside both.
TwoRingsAndABystander ==
    /\ Len(clusters) = 2
    /\ \A k \in 1..2 : \E r \in Rows : df[r].ip \in Range(clusters[k].ips)
    /\ \E r \in Rows : ClustersOf(df[r].ip) = {}

\* C1: determinism of the enrichment run: a second run on the same input
\* file with the same seed writes the same output table as the first, value
\* for value and in the same row and column order.
C1_SameOutputOnRerun ==
    (run = 2 /\ pc = "done") => output = first_output

\* C2: cluster consistency at the end of the override loop: a row whose ip is
\* in a cluster's hub-IP list carries that cluster's id and the fraud flag; a
\* row whose ip is in no cluster carries id 0 and no flag; and the fraud rows
\* are as many as the rows whose ip is a hub IP.
C2_ClusterConsistency ==
    LoopEnded =>
        /\ \A k \in 1..Len(clusters) : \A r \in Rows :
              df[r].ip \in Range(clusters[k].ips) =>
                  /\ df[r].fraud_cluster_id = clusters[k].cluster_id
                  /\ df[r].is_synthetic_fraud = TRUE
        /\ \A r \in Rows :
              ClustersOf(df[r].ip) = {} =>
                  /\ df[r].fraud_cluster_id = 0
                  /\ df[r].is_synthetic_fraud = FALSE
        /\ Cardinality({r \in Rows : df[r].is_synthetic_fraud})
               = Cardinality({r \in Rows : df[r].ip \in hub_ips})

C2_Witness == LoopEnded /\ TwoRingsAndABystander

\* C3: cluster partition: when the cluster-building loop has ended, the
\* hub-IP lists of the clusters are pairwise disjoint, no list repeats an IP,
\* and their union is the hub-IP set, whatever the hub set and the sizes drawn.
C3_ClusterPartition ==
    pc = "cut_done" =>
        /\ \A j, k \in 1..Len(clusters) :
              j # k => Range(clusters[j].ips) \cap Range(clusters[k].ips) = {}
        /\ \A k \in 1..Len(clusters) :
              Cardinality(Range(clusters[k].ips)) = Len(clusters[k].ips)
        /\ UNION {Range(clusters[k].ips) : k \in 1..Len(clusters)} = hub_ips
        /\ \A ip \in hub_ips : Cardinality(ClustersOf(ip)) = 1

C3_Witness ==
    /\ pc = "cut_done"
    /\ Len(clusters) = 3
    /\ Len(clusters[3].ips) < CLUSTER_MIN_SIZE

\* The values of the input file's columns in a row.
InputPart(r) == [c \in Range(file.columns) |-> r[c]]

\* C4: row preservation: from the load to the written file, the table has as
\* many rows as the input and the i-th row carries the input fields of the
\* i-th input row; the output file holds exactly those rows.
C4_RowPreservation ==
    /\ pc \notin {"load", "aborted"} =>
          /\ Len(df) = Len(file.rows)
          /\ \A i \in Rows : InputPart(df[i]) = file.rows[i]
    /\ output.written =>
          /\ Len(output.rows) = Len(file.rows)
          /\ \A i \in 1..Len(output.rows) :
                InputPart(output.rows[i]) = file.rows[i]

C4_Witness ==
    /\ output.written
    /\ Len(file.rows) = MaxRows
    /\ TwoRingsAndABystander

\* The two flag columns exist.
Flagged == pc \in {"override", "done"}

\* C5: record invariant: once the two columns are initialised, after each
\* iteration of the override loop and in the output, a row has
\* fraud_cluster_id > 0 exactly when is_synthetic_fraud is true.
C5_FlagsAgree ==
    /\ Flagged =>
          \A r \in Rows :
              (df[r].fraud_cluster_id > 0) <=> (df[r].is_synthetic_fraud = TRUE)
    /\ output.written =>
          \A r \in 1..Len(output.rows) :
              (output.rows[r].fraud_cluster_id > 0)
                  <=> (output.rows[r].is_synthetic_fraud = TRUE)

C5_Witness ==
    /\ pc = "override"
    /\ loop_i = 2
    /\ Len(clusters) = 2
    /\ \E r \in Rows : df[r].fraud_cluster_id = 1
    /\ \E r \in Rows : df[r].fraud_cluster_id = 0 /\ ClustersOf(df[r].ip) = {2}

OverriddenColumns == {"ad_id", "user_id", "email", "country",
                      "device_fingerprint"}

\* An iteration of the override loop is taken.
OverrideStep == pc = "override" /\ loop_i <= Len(clusters) /\ loop_i' = loop_i + 1

\* C6: frame of the override engine: after the loop, a row whose ip belongs to
\* no cluster has the ad_id, user_id, email, country and device_fingerprint
\* the baseline pass gave it; and no iteration (its geographic-noise step
\* included) changes a row outside the current cluster's mask.
C6_Frame ==
    /\ [](LoopEnded =>
            \A r \in Rows :
                ClustersOf(df[r].ip) = {} =>
                    \A c \in OverriddenColumns : df[r][c] = baseline[r][c])
    /\ [][OverrideStep =>
            \A r \in Rows :
                df[r].ip \notin Range(clusters[loop_i].ips) => df'[r] = df[r]
         ]_vars

\* A cluster of at least two rows had its noise step run, next to a row
\* outside every cluster.
C6_Witness ==
    /\ LoopEnded
    /\ \E r \in Rows : ClustersOf(df[r].ip) = {}
    /\ \E k \in 1..Len(clusters) :
          /\ Cardinality({r \in Rows : df[r].fraud_cluster_id = k}) >= 2
          /\ \E r \in Rows : /\ df[r].fraud_cluster_id = k
                             /\ df[r].country # baseline[r].country

\* "fp_" followed by exactly 8 digits.
IsClusterFingerprint(fp) ==
    /\ Len(fp) = 11
    /\ SubSeq(fp, 1, 3) = <<"f", "p", "_">>
    /\ \A i \in 4..11 : IsDigit(fp[i])

\* C7: fingerprint uniformity: in the output, rows of the same cluster have
\* the same device_fingerprint, which is the cluster's shared fingerprint,
\* "fp_" and 8 digits, and not a fingerprint of the baseline pass.
C7_FingerprintUniform ==
    output.written =>
        LET o == output.rows
        IN /\ \A r, t \in 1..Len(o) :
                 (o[r].fraud_cluster_id > 0
                      /\ o[r].fraud_cluster_id = o[t].fraud_cluster_id)
                     => o[r].device_fingerprint = o[t].device_fingerprint
           /\ \A r \in 1..Len(o) :
                 o[r].fraud_cluster_id > 0 =>
                     /\ o[r].device_fingerprint
                            = cluster_fingerprints[o[r].fraud_cluster_id]
                     /\ IsClusterFingerprint(o[r].device_fingerprint)
                     /\ \A t \in 1..Len(o) :
                           o[r].device_fingerprint
                               # baseline[t].device_fingerprint

\* A written cluster of two rows with different source IPs.
C7_Witness ==
    /\ output.written
    /\ \E r, t \in 1..Len(output.rows) :
          /\ r # t
          /\ output.rows[r].fraud_cluster_id > 0
          /\ output.rows[r].fraud_cluster_id = output.rows[t].fraud_cluster_id
          /\ output.rows[r].ip # output.rows[t].ip

\* The target ads exist.
Targeted == pc \in {"flags", "override", "done"}

\* FRAUD_TARGET_ADS is within ALL_ADS.
FraudAdsAmongAllAds == Range(FRAUD_TARGET_ADS) \subseteq Range(ALL_ADS)

\* C8: ad targeting: each cluster's target ads are 1 to 3 distinct members of
\* FRAUD_TARGET_ADS, itself within ALL_ADS; and in the output a fraud row's
\* ad_id is one of its cluster's target ads.
C8_AdTargeting ==
    /\ FraudAdsAmongAllAds
    /\ Targeted =>
          \A k \in 1..Len(clusters) :
              LET t == cluster_target_ads[clusters[k].cluster_id]
              IN /\ Len(t) \in 1..3
                 /\ Cardinality(Range(t)) = Len(t)
                 /\ Range(t) \subseteq Range(FRAUD_TARGET_ADS)
    /\ output.written =>
          \A r \in 1..Len(output.rows) :
              output.rows[r].fraud_cluster_id > 0 =>
                  output.rows[r].ad_id
                      \in Range(cluster_target_ads[output.rows[r].fraud_cluster_id])

\* Two written clusters whose target ads differ, one of them a single ad.
C8_Witness ==
    /\ output.written
    /\ TwoRingsAndABystander
    /\ Range(cluster_target_ads[1]) # Range(cluster_target_ads[2])
    /\ \E r \in 1..Len(output.rows) :
          /\ output.rows[r].fraud_cluster_id > 0
          /\ output.rows[r].ad_id # baseline[r].ad_id

\* The position of the first "@" of an email.
AtPos(e) == CHOOSE i \in 1..Len(e) : e[i] = "@" /\ \A j \in 1..(i - 1) : e[j] # "@"
LocalPart(e) == SubSeq(e, 1, AtPos(e) - 1)
DomainPart(e) == SubSeq(e, AtPos(e) + 1, Len(e))

\* In the output, a fraud row's email is a handle of its cluster's pool, "@",
\* and a domain of the fraud-specific list.
FraudEmailShape ==
    \A r \in 1..Len(output.rows) :
        output.rows[r].fraud_cluster_id > 0 =>
            /\ LocalPart(output.rows[r].email)
                   \in Range(cluster_email_pools[output.rows[r].fraud_cluster_id])
            /\ \E d \in Range(fraud_domains) :
                   DomainPart(output.rows[r].email) = <<d>>

\* The two domain lists share three domains and differ in one each.
DomainListsOverlap ==
    /\ Range(fraud_domains) \cap Range(domains)
           = {"gmail.com", "yahoo.com", "outlook.com"}
    /\ Range(fraud_domains) \ Range(domains) = {"mail.ru"}
    /\ Range(domains) \ Range(fraud_domains) = {"proton.me"}

\* C9 (as amended): email shape: in the output a fraud row's local part is in
\* its cluster's pool and its domain is in the fraud-specific list; that list
\* and the baseline list are not disjoint: they share gmail.com, yahoo.com and
\* outlook.com, mail.ru is only in the fraud list and proton.me only in the
\* baseline list.
C9_EmailShape ==
    /\ output.written => FraudEmailShape
    /\ DomainListsOverlap

\* C9 as claimed: the same shape, with the two domain lists disjoint.
C9_AsClaimed ==
    (output.written /\ FraudRows # {}) =>
        /\ FraudEmailShape
        /\ Range(fraud_domains) \cap Range(domains) = {}

\* Two clusters were written, with fraud rows on a plain handle and on a
\* variant, and one on a domain the baseline list also holds.
C9_Witness ==
    /\ output.written
    /\ TwoRingsAndABystander
    /\ \E r, t \in 1..Len(output.rows) :
          /\ output.rows[r].fraud_cluster_id = 1
          /\ output.rows[t].fraud_cluster_id = 2
          /\ LocalPart(output.rows[r].email) # LocalPart(output.rows[t].email)
          /\ DomainPart(output.rows[r].email)[1] \in Range(domains)

\* The hubs were selected.
HubsSelected == pc \notin {"load", "base", "hubs", "aborted", "cut", "cut_done"}

\* C10 (as amended): hub selector size: for N >= 1 distinct source IPs and
\* hub fraction f, max(1, floor(N * f)) hub IPs are selected (int() truncates;
\* it does not round), they are pairwise distinct and all among the distinct
\* IPs; N = 1000 and f = 0.05 give 50.
C10_HubCount ==
    /\ HubsSelected =>
          /\ Len(unique_ips) >= 1
          /\ Cardinality(hub_ips)
                 = Max(1, (Len(unique_ips) * hub_fraction) \div 100)
          /\ hub_ips \subseteq Range(unique_ips)
    /\ NumHubIps(1000, 5) = 50

\* C10 as claimed: max(1, round(N * f)) hub IPs are selected.
C10_AsClaimed ==
    HubsSelected =>
        /\ Cardinality(hub_ips)
               = Max(1, RoundHalfEven(Len(unique_ips) * hub_fraction, 100))
        /\ hub_ips \subseteq Range(unique_ips)

\* Several hubs were selected, fewer than the distinct IPs.
C10_Witness ==
    /\ HubsSelected
    /\ Cardinality(hub_ips) = 3
    /\ Len(unique_ips) = 4

\* The input file is there with every column and no row.
EmptyInput ==
    /\ file.present
    /\ file.columns = InputColumns
    /\ Len(file.rows) = 0

\* C11: an empty hub set is not an error: on an input table with no rows the
\* run does not abort; hub selection yields no hub, no cluster is built, and
\* the file that is written has no fraud row.
C11_EmptyTableSucceeds ==
    EmptyInput =>
        /\ pc # "aborted"
        /\ hub_ips = {}
        /\ clusters = <<>>
        /\ output.written =>
               \A r \in 1..Len(output.rows) : output.rows[r].fraud_cluster_id = 0

\* The rows of the table that the mask of cluster c selects.
MaskOf(c) == {r \in Rows : df[r].ip \in Range(c.ips)}

\* The rows of a set whose country differs from the baseline pass's.
Renationalised(rows) == {r \in rows : df[r].country # baseline[r].country}

\* An iteration of the override loop has just ended, or the run has.
IterationDone == pc \in {"override", "done"} /\ loop_i > 1

\* C12: geographic noise bound: after the iteration of a cluster whose mask
\* selects n >= 1 rows, the noise step has written country on exactly
\* round(0.30 * n) pairwise distinct rows (ties to even), all rows of that
\* mask, and the other rows of the mask keep their baseline country; so no
\* processed cluster has more than round(0.30 * n) rows with a new country.
C12_NoiseBound ==
    /\ IterationDone =>
          /\ LET mask == MaskOf(clusters[loop_i - 1])
                 n == Cardinality(mask)
             IN n >= 1 =>
                   /\ Len(sub_idx) = RoundHalfEven(30 * n, 100)
                   /\ Cardinality(Range(sub_idx)) = Len(sub_idx)
                   /\ Range(sub_idx) \subseteq mask
                   /\ Renationalised(mask) \subseteq Range(sub_idx)
          /\ \A k \in 1..(loop_i - 1) :
                Cardinality(Renationalised(MaskOf(clusters[k])))
                    <= RoundHalfEven(30 * Cardinality(MaskOf(clusters[k])), 100)
    /\ SampleSize(15) = 4

\* A cluster of several rows had one of them sampled and given a new country.
C12_Witness ==
    /\ IterationDone
    /\ Cardinality(MaskOf(clusters[loop_i - 1])) >= 3
    /\ Len(sub_idx) = 1
    /\ Renationalised(MaskOf(clusters[loop_i - 1])) = Range(sub_idx)

\* C13: no partial output: the output file is written in one step only, the
\* one that follows the last iteration of the override loop of a run that
\* read its input; a written file goes with a finished run, and a run that
\* aborted (file absent, column absent, hub selection failing) left no file.
C13_NoPartialOutput ==
    /\ [](/\ output.written =>
                /\ pc = "done"
                /\ file.present
                /\ loop_i > Len(clusters)
                /\ output.rows = df
          /\ pc = "aborted" => output = NoFile)
    /\ [][output' # output =>
              /\ pc = "override"
              /\ loop_i > Len(clusters)
              /\ output = NoFile
              /\ pc' = "done"]_vars

\* A run read rows from its input, failed later, and left no output file.
C13_Witness ==
    /\ pc = "aborted"
    /\ file.present
    /\ Len(df) > 0
    /\ output = NoFile

\* C14 (as amended): output column order: the written table's columns are
\* the input columns in their original order followed by the eight enriched
\* columns in the order ad_id, user_id, country, device_fingerprint,
\* connection_type, email, fraud_cluster_id, is_synthetic_fraud; every row
\* has a value for exactly these columns.
C14_ColumnOrder ==
    output.written =>
        /\ output.columns =
               file.columns \o <<"ad_id", "user_id", "country",
                                 "device_fingerprint", "connection_type",
                                 "email", "fraud_cluster_id",
                                 "is_synthetic_fraud">>
        /\ \A r \in 1..Len(output.rows) :
               DOMAIN output.rows[r] = Range(output.columns)

\* C14 as claimed: email is the last of the eight enriched columns.
C14_AsClaimed ==
    output.written =>
        output.columns =
            file.columns \o <<"ad_id", "user_id", "country",
                              "device_fingerprint", "connection_type",
                              "fraud_cluster_id", "is_synthetic_fraud",
                              "email">>

\* A table with rows was written.
C14_Witness ==
    /\ output.written
    /\ Len(output.rows) > 0
    /\ Len(output.columns) = Len(InputColumns) + 8

\* C15: the cluster's shared fingerprint is an order-independent function of
\* the cluster's hub-IP membership: two clusters whose hub-IP lists hold the
\* same set of IPs, in whatever orders, get the same fingerprint.
C15_FingerprintOrderIndependent ==
    (pc = "fp_done" /\ Range(clusters[1].ips) = Range(clusters[2].ips)) =>
        cluster_fingerprints[1] = cluster_fingerprints[2]

\* C16: randomness discipline: every random draw of the synthesis comes from
\* the one generator seeded at the start of the run, none from a separately
\* seeded or newly created generator; so the rows that the geographic
\* sub-sampling of an iteration picks are those that the run's generator, in
\* the state the iteration's earlier draws left it in, picks.
C16_OneGenerator ==
    [][OverrideStep =>
          LET idx == MaskIndex(df, Range(clusters[loop_i].ips), 1)
              m == Len(idx)
              x == After(rng, Stream(rng, 4 * m + NumBaseUsers(m)))
          IN m > 0 => sub_idx' = SampleIndex(idx, x)]_vars

RECURSIVE Flatten(_)
\* The hub-IP lists of a sequence of clusters, one after the other.
Flatten(cs) == IF Len(cs) = 0 THEN <<>> ELSE cs[1].ips \o Flatten(Tail(cs))

\* C17: cluster ids: the k clusters that the builder produces carry the ids
\* 1, 2, ..., k in the order in which they were cut from the front of the hub
\* list, with no gap and no id used twice.
C17_ClusterIds ==
    pc = "cut_done" =>
        /\ \A k \in 1..Len(clusters) : clusters[k].cluster_id = k
        /\ Flatten(clusters) = hub_ips_list

\* Three clusters were cut.
C17_Witness ==
    /\ pc = "cut_done"
    /\ Len(clusters) = 3
    /\ clusters[3].cluster_id = 3

\* C18: cluster sizes: every cluster is non-empty and holds at most
\* CLUSTER_MAX_SIZE hub IPs; every cluster but the last holds at least
\* CLUSTER_MIN_SIZE; only the last may hold fewer.
C18_ClusterSizes ==
    pc = "cut_done" =>
        \A k \in 1..Len(clusters) :
            /\ Len(clusters[k].ips) >= 1
            /\ Len(clusters[k].ips) <= CLUSTER_MAX_SIZE
            /\ k < Len(clusters) => Len(clusters[k].ips) >= CLUSTER_MIN_SIZE

\* A cluster of the largest size is followed by a last cluster of one IP.
C18_Witness ==
    /\ pc = "cut_done"
    /\ Len(clusters) = 2
    /\ Len(clusters[1].ips) = CLUSTER_MAX_SIZE
    /\ Len(clusters[2].ips) < CLUSTER_MIN_SIZE

\* Both walks of the cluster list have ended.
BothOrdersDone == pc = "order" /\ loop_i > Len(clusters)

\* C19: cluster processing order does not matter: whatever draws each
\* cluster's iteration makes, walking the cluster list in another order
\* gives every row the same final values, so the possible final tables are
\* the same for every order.
C19_OrderIrrelevant ==
    BothOrdersDone => df_perm = df

\* Two clusters with rows, walked in the two orders, with different draws.
C19_Witness ==
    /\ BothOrdersDone
    /\ Len(clusters) = 2
    /\ perm = <<2, 1>>
    /\ draws[1] # draws[2]
    /\ \A k \in 1..2 : MaskOf(clusters[k]) # {}
    /\ \E r \in Rows : df[r] # baseline[r] @@ [fraud_cluster_id |-> 0,
                                               is_synthetic_fraud |-> FALSE]

\* A synthetic identity: u followed by six digits.
IsSyntheticUser(u) ==
    /\ Len(u) = 7
    /\ u[1] = "u"
    /\ \A i \in 2..7 : IsDigit(u[i])

\* The baseline user_id values of a set of rows.
BaselineUsers(rows) == {baseline[r].user_id : r \in rows}

\* C20: user-id rotation: after the iteration of a cluster whose mask selects
\* n >= 1 rows, the synthetic identity pool has max(50, floor(n / 10))
\* entries, and every row of the mask has a user_id that is an entry of that
\* pool or the baseline user_id of a row of the same mask; the rows of every
\* processed cluster carry a synthetic identity or a baseline user_id of
\* their own cluster, never one found only outside it.
C20_UserRotation ==
    /\ IterationDone =>
          /\ \A mask \in {MaskOf(clusters[loop_i - 1])} :
                mask # {} =>
                   /\ Len(base_users) = Max(50, Cardinality(mask) \div 10)
                   /\ \A r \in mask : \A u \in {df[r].user_id} :
                         \/ \E j \in 1..Len(base_users) : u = base_users[j]
                         \/ \E q \in mask : u = baseline[q].user_id
          /\ \A k \in 1..(loop_i - 1) : \A r \in MaskOf(clusters[k]) :
                \/ IsSyntheticUser(df[r].user_id)
                \/ df[r].user_id \in BaselineUsers(MaskOf(clusters[k]))
    /\ NumBaseUsers(509) = 50
    /\ NumBaseUsers(1000) = 100

\* A cluster's rows took a synthetic identity, and another cluster's rows
\* have other baseline user ids.
C20_Witness ==
    /\ IterationDone
    /\ Len(clusters) = 2
    /\ \E r \in MaskOf(clusters[loop_i - 1]) : df[r].user_id \in Range(base_users)
    /\ BaselineUsers(Rows \ MaskOf(clusters[loop_i - 1]))
           \cap BaselineUsers(MaskOf(clusters[loop_i - 1])) = {}

\* A string holds neither "." nor "_".
Plain(s) == ~Contains(s, ".") /\ ~Contains(s, "_")

\* The i-th base handle of the root given: the root and i on three digits.
BaseHandle(i) == arg_root \o ZeroPad(i, 3)

\* h is b followed by "+promo" and one digit.
IsPlusVariantOf(h, b) ==
    \E d \in 0..9 : h = b \o <<"+", "p", "r", "o", "m", "o", Digit(d)>>

\* h is b with the single character c inserted strictly between b's first
\* and last character.
IsInsertionOf(h, b, c) ==
    \E pos \in 1..(Len(b) - 1) :
        h = SubSeq(b, 1, pos) \o <<c>> \o SubSeq(b, pos + 1, Len(b))

\* build_email_pool has returned.
PoolBuilt == pc = "pool_done"

\* C21: email pool contents: for a root holding neither "." nor "_" and a
\* pool size P, build_email_pool returns a list without duplicates of exactly
\* 4 * P handles: for each base handle root000 .. root{P-1}, the base handle,
\* one plus variant, one dot variant and one underscore variant, and nothing
\* else.
C21_PoolContents ==
    (PoolBuilt /\ Plain(arg_root)) =>
        \A pool \in {cluster_email_pools[1]} :
            /\ Len(pool) = 4 * arg_size
            /\ Cardinality(Range(pool)) = Len(pool)
            /\ \A i \in 0..(arg_size - 1) : \A b \in {BaseHandle(i)} :
                  /\ b \in Range(pool)
                  /\ Cardinality({h \in Range(pool) : IsPlusVariantOf(h, b)}) = 1
                  /\ Cardinality({h \in Range(pool) : IsInsertionOf(h, b, ".")}) = 1
                  /\ Cardinality({h \in Range(pool) : IsInsertionOf(h, b, "_")}) = 1
            /\ \A h \in Range(pool) : \E i \in 0..(arg_size - 1) :
                  \/ h = BaseHandle(i)
                  \/ IsPlusVariantOf(h, BaseHandle(i))
                  \/ IsInsertionOf(h, BaseHandle(i), ".")
                  \/ IsInsertionOf(h, BaseHandle(i), "_")

\* A pool of two base handles on the script's root, returned in an order
\* that does not start with the first base handle, its dot and underscore
\* variants cut at different places.
C21_Witness ==
    /\ PoolBuilt
    /\ arg_root = <<"f", "r", "a", "u", "d", "e", "r">>
    /\ arg_size = 2
    /\ Len(cluster_email_pools[1]) = 8
    /\ cluster_email_pools[1][1] # BaseHandle(0)
    /\ \E pos, q \in 1..9 :
          /\ pos # q
          /\ InsertAt(BaseHandle(0), pos, ".") \in Range(cluster_email_pools[1])
          /\ InsertAt(BaseHandle(0), q, "_") \in Range(cluster_email_pools[1])

\* The steps that the runner executes in its environment: steps 0 to 3
\* always, the feature views and the training when their file exists.
StepsToRun ==
    {"check_db", "load_data", "clean_data", "bi_views"}
        \cup (IF "create_bi_feature_views.sql" \in exists
                 THEN {"feature_views"} ELSE {})
        \cup (IF "train_baseline.py" \in exists THEN {"train"} ELSE {})

\* C22: pipeline runner: "All steps completed successfully." is printed only
\* after every step the pipeline executes, the baseline training included,
\* has finished with exit code 0.
C22_SuccessAfterAllSteps ==
    success_printed => StepsToRun \subseteq Range(finished)

====
